---- MODULE Spec2Model ----
(***************************************************************************)
(* Model of the wfd crate (src/src/lib.rs): open_dialog and save_dialog    *)
(* driving the native Common Item Dialog through COM.                      *)
(*                                                                         *)
(* The program is sequential.  Every native call is one step of the model: *)
(* the native layer answers with an HRESULT (and out-values) chosen        *)
(* nondeterministically, the code reacts as lib.rs does (the com wrapper   *)
(* and the ? operator return early on a failing HRESULT).                  *)
(*                                                                         *)
(* The native layer is instrumented: log is the sequence of native entry   *)
(* points called in the current session, acquired / released count the     *)
(* native handles handed out and given back in the current session,        *)
(* comInit counts the successful CoInitializeEx calls not yet balanced by  *)
(* CoUninitialize, fault is the first failing native answer.               *)
(***************************************************************************)
EXTENDS Integers, Sequences, FiniteSets, TLC

(* ------------------------------ bounds --------------------------------- *)

\* Largest number of items the native results collection holds.
MaxItems == 3

\* A new session starts only while fewer than MaxPending environment
\* acquisitions are outstanding (caps the comInit counter).
MaxPending == 2

(* --------------------------- program constants ------------------------- *)

FOS_OVERWRITEPROMPT == 2
FOS_NOCHANGEDIR == 8
FOS_PICKFOLDERS == 32
FOS_ALLOWMULTISELECT == 512
FOS_PATHMUSTEXIST == 2048
FOS_FILEMUSTEXIST == 4096
FOS_NOREADONLYRETURN == 32768

\* const SFGAO_FILESYSTEM: u32 = 0x4000_0000
SFGAO_FILESYSTEM == 1073741824

(* ------------------------------ integers ------------------------------- *)

RECURSIVE BitOr(_, _)
\* a | b on non-negative integers below 2^31.
BitOr(a, b) ==
    IF a = 0 THEN b
    ELSE IF b = 0 THEN a
    ELSE (IF (a % 2 = 1) \/ (b % 2 = 1) THEN 1 ELSE 0) + 2 * BitOr(a \div 2, b \div 2)

RECURSIVE BitAnd(_, _)
\* a & b on non-negative integers below 2^31.
BitAnd(a, b) ==
    IF a = 0 \/ b = 0 THEN 0
    ELSE (IF (a % 2 = 1) /\ (b % 2 = 1) THEN 1 ELSE 0) + 2 * BitAnd(a \div 2, b \div 2)

\* The i32 whose bit pattern is the 32-bit word hi * 2^16 + lo: what the
\* literal 0x8007_04C7 denotes when it is typed i32 under
\* #[allow(overflowing_literals)].
I32FromWords(hi, lo) ==
    IF hi >= 32768 THEN (hi - 65536) * 65536 + lo ELSE hi * 65536 + lo

\* HRESULTs the native layer answers with (as i32): S_OK = 0, S_FALSE = 1,
\* and two failure codes.
\* 0x80004005
E_FAIL == I32FromWords(32768, 16389)
\* HRESULT_FROM_WIN32(ERROR_CANCELLED), the bit pattern 0x800704C7 as i32
HR_CANCELLED == -2147023673

HRESULTS == {0, 1, E_FAIL, HR_CANCELLED}

\* winerror SUCCEEDED(hr): hr >= 0
SUCCEEDED(hr) == hr >= 0

\* The native layer's own notion of a failed call: severity bit set.
NativeFailed(hr) == hr < 0

HasFlag(flags, f) == BitAnd(flags, f) # 0

(* --------------------------- configurations ---------------------------- *)

\* file_types: vec![("All types (*.*)", "*.*")]
CatchAllFilter == <<"All types (*.*)", "*.*">>

\* impl Default for DialogParams
DefaultParams ==
    [ default_extension |-> "",
      default_folder    |-> "",
      file_name         |-> "",
      file_name_label   |-> "",
      file_type_index   |-> 1,
      file_types        |-> <<CatchAllFilter>>,
      folder            |-> "",
      ok_button_label   |-> "",
      options           |-> 0,
      owner             |-> "None",
      save_as_item      |-> "",
      title             |-> "" ]

\* The optional fields of DialogParams a caller may fill in.
Fields ==
    { "default_extension", "default_folder", "file_name", "file_name_label",
      "folder", "ok_button_label", "owner", "save_as_item", "title" }

\* Which fields the enumerated configurations fill in: none, one, both
\* folders, all but one, or all of them.
FieldSets ==
    {{}} \cup {{f} : f \in Fields} \cup {{"default_folder", "folder"}}
         \cup {Fields \ {f} : f \in Fields} \cup {Fields}

\* Filter lists of the enumerated configurations.
FilterLists ==
    { <<>>,
      <<CatchAllFilter>>,
      << <<"JPG Files", "*.jpg;*.jpeg">>, <<"PDF Files", "*.pdf">> >> }

FileTypeIndexes == 0 .. 2

OptionSets == {0, FOS_PICKFOLDERS, FOS_ALLOWMULTISELECT}

\* struct DialogParams, with the fields in S filled in.
MakeParams(S, ft, idx, opt) ==
    [ default_extension |-> IF "default_extension" \in S THEN "dll" ELSE "",
      default_folder    |-> IF "default_folder" \in S THEN "C:\\Windows" ELSE "",
      file_name         |-> IF "file_name" \in S THEN "win32k.sys" ELSE "",
      file_name_label   |-> IF "file_name_label" \in S THEN "Select" ELSE "",
      file_type_index   |-> idx,
      file_types        |-> ft,
      folder            |-> IF "folder" \in S THEN "C:\\Users" ELSE "",
      ok_button_label   |-> IF "ok_button_label" \in S THEN "Custom OK" ELSE "",
      options           |-> opt,
      owner             |-> IF "owner" \in S THEN "hwnd" ELSE "None",
      save_as_item      |-> IF "save_as_item" \in S THEN "C:\\a.txt" ELSE "",
      title             |-> IF "title" \in S THEN "Title" ELSE "" ]

ParamsSet ==
    { MakeParams(S, ft, idx, opt) :
        S \in FieldSets, ft \in FilterLists, idx \in FileTypeIndexes, opt \in OptionSets }

(* ------------------------------- results ------------------------------- *)

NoResult == [tag |-> "None"]
OkUnit == [tag |-> "Ok"]
UserCancelled == [tag |-> "UserCancelled"]
UnsupportedFilepath == [tag |-> "UnsupportedFilepath"]
HResultFailed(method, hr) ==
    [tag |-> "HResultFailed", error_method |-> method, hresult |-> hr]

NoFault == [method |-> "", hresult |-> 0]

\* The comparison made against the Win32 code ERROR_CANCELLED (1223)
\* instead of the HRESULT that wraps it.
IsUserCancelled_Win32Code(hresult) == hresult = 1223

\* show_dialog: hresult == 0x8007_04C7, the literal typed i32.
IsUserCancelled(hresult) == hresult = I32FromWords(32775, 1223)

\* com with the cancelled status treated as a success.
com_CancelIsSuccess(hresult, method) ==
    IF ~SUCCEEDED(hresult) /\ ~IsUserCancelled(hresult)
    THEN HResultFailed(method, hresult) ELSE OkUnit

\* fn com: Err(HResultFailed) if the HRESULT does not report success.
com(hresult, method) ==
    IF ~SUCCEEDED(hresult) THEN HResultFailed(method, hresult) ELSE OkUnit

IsErr(r) == r.tag # "Ok"


\* show_dialog: the match on the result of IModalWindow::Show.
show_dialog(hr) ==
    LET r == com(hr, "IModalWindow::Show") IN
    IF r.tag = "Ok" THEN OkUnit
    ELSE IF r.tag = "HResultFailed"
         THEN IF IsUserCancelled(r.hresult) THEN UserCancelled ELSE r
         ELSE r

(* ------------------------- display-name buffers ------------------------ *)

\* The wide-character buffer the native layer allocates for the display
\* name of the k-th selected item: a name, the terminating 0, and whatever
\* follows it in memory.
DisplayNameBuffer(k) == <<67, 58, 96 + k, 0, 120>>

RECURSIVE wcslen(_)
\* libc wcslen: code units before the first 0.
wcslen(buf) == IF buf = <<>> \/ Head(buf) = 0 THEN 0 ELSE 1 + wcslen(Tail(buf))

\* get_shell_item_display_name: slice::from_raw_parts(display_name,
\* wcslen(display_name)) turned into an OsString.
OsStringFromWide(buf) == SubSeq(buf, 1, wcslen(buf))

\* The new path put in front of the list instead of at its end.
PushPath_Front(paths, name) == <<name>> \o paths

\* file_paths.push(PathBuf::from(file_name))
PushPath(paths, name) == Append(paths, name)

(* ------------------------------- native -------------------------------- *)

\* Flags a freshly created dialog carries.
InitialOptions(k) ==
    IF k = "open"
    THEN BitOr(FOS_PATHMUSTEXIST, BitOr(FOS_FILEMUSTEXIST, FOS_NOCHANGEDIR))
    ELSE BitOr(BitOr(FOS_OVERWRITEPROMPT, FOS_NOREADONLYRETURN),
               BitOr(FOS_PATHMUSTEXIST, FOS_NOCHANGEDIR))

RECURSIVE BoolSeqs(_)
BoolSeqs(n) ==
    IF n = 0 THEN {<<>>}
    ELSE BoolSeqs(n - 1) \cup
         {Append(s, b) : s \in {t \in BoolSeqs(n - 1) : Len(t) = n - 1}, b \in BOOLEAN}

\* What the user can confirm: a sequence of items, each filesystem-backed
\* (TRUE) or not; more than one only when the dialog allows multi-select.
Selections(k, opts) ==
    IF k = "save" THEN {<<TRUE>>, <<FALSE>>}
    ELSE {s \in BoolSeqs(MaxItems) : Len(s) <= 1 \/ HasFlag(opts, FOS_ALLOWMULTISELECT)}

\* Attributes of an item as the shell reports them.
ItemAttributes(fs) == IF fs THEN SFGAO_FILESYSTEM ELSE 0

\* The value IFileDialog::GetFileTypeIndex writes: the selected filter, or,
\* for a dialog without file types, 0 or 1.
NativeFileTypeIndex(d) ==
    IF d.file_types = <<>> THEN {0, 1} ELSE {d.file_type_index}

(* -------------------------------- state -------------------------------- *)

VARIABLES
    pc,               \* the next native call, "returned", or "idle" between sessions
    kind,             \* "open" | "save" | "none"
    params,           \* the DialogParams of the current session
    dlg,              \* the native dialog: options, file_types, file_type_index
    selection,        \* the items the user confirmed
    userChanged,      \* the user picked another filter in the dialog
    existing_options, \* configure_file_dialog's local
    item_count,       \* open_dialog's local
    i,                \* open_dialog's loop index
    file_paths,       \* open_dialog's local
    file_name,        \* save_dialog's local
    result,           \* what the session returned
    log,              \* native entry points called in this session
    fault,            \* the failing native answer of this session
    acquired,         \* native handles handed out in this session
    released,         \* native handles given back in this session
    comInit           \* CoInitializeEx successes not balanced by CoUninitialize

vars ==
    << pc, kind, params, dlg, selection, userChanged, existing_options,
       item_count, i, file_paths, file_name, result, log, fault, acquired, released, comInit >>

NoDialog == [options |-> 0, file_types |-> <<>>, file_type_index |-> 0]

Init ==
    /\ pc = "idle"
    /\ kind = "none"
    /\ params = DefaultParams
    /\ dlg = NoDialog
    /\ selection = <<>>
    /\ userChanged = FALSE
    /\ existing_options = 0
    /\ item_count = 0
    /\ i = 0
    /\ file_paths = <<>>
    /\ file_name = <<>>
    /\ result = NoResult
    /\ log = <<>>
    /\ fault = NoFault
    /\ acquired = 0
    /\ released = 0
    /\ comInit = 0

\* fault after a native call named name answered hr.
Fault(name, hr) == IF NativeFailed(hr) THEN [method |-> name, hresult |-> hr] ELSE fault

\* The ? operator on an Err: the function returns it at once.
Abort(r) == pc' = "returned" /\ result' = r

(* ---------------------- order of configure_file_dialog ----------------- *)

\* The order with the title set before the options.
CfgOrder_TitleBeforeOptions ==
    << "IFileDialog::SetDefaultExtension",
       "DefaultFolder::SHCreateItemFromParsingName",
       "IFileDialog::SetDefaultFolder",
       "Folder::SHCreateItemFromParsingName",
       "IFileDialog::SetFolder",
       "IFileDialog::SetFileName",
       "IFileDialog::SetFileNameLabel",
       "IFileDialog::SetFileTypes",
       "IFileDialog::SetFileTypeIndex",
       "IFileDialog::SetOkButtonLabel",
       "IFileDialog::SetTitle",
       "IFileDialog::GetOptions",
       "IFileDialog::SetOptions" >>

\* The native calls of configure_file_dialog, in program order.
CfgOrder ==
    << "IFileDialog::SetDefaultExtension",
       "DefaultFolder::SHCreateItemFromParsingName",
       "IFileDialog::SetDefaultFolder",
       "Folder::SHCreateItemFromParsingName",
       "IFileDialog::SetFolder",
       "IFileDialog::SetFileName",
       "IFileDialog::SetFileNameLabel",
       "IFileDialog::SetFileTypes",
       "IFileDialog::SetFileTypeIndex",
       "IFileDialog::SetOkButtonLabel",
       "IFileDialog::GetOptions",
       "IFileDialog::SetOptions",
       "IFileDialog::SetTitle" >>

\* SetFileTypes called whatever the list holds.
WantsFileTypes_Always(p) == TRUE

\* if !params.file_types.is_empty()
WantsFileTypes(p) == p.file_types # <<>>

\* if !params.file_types.is_empty() && params.file_type_index > 0
WantsFileTypeIndex(p) == p.file_types # <<>> /\ p.file_type_index > 0

\* The condition under which configure_file_dialog makes the call.
Applies(p, step) ==
    CASE step = "IFileDialog::SetDefaultExtension" -> p.default_extension # ""
      [] step = "DefaultFolder::SHCreateItemFromParsingName" -> p.default_folder # ""
      [] step = "IFileDialog::SetDefaultFolder" -> p.default_folder # ""
      [] step = "Folder::SHCreateItemFromParsingName" -> p.folder # ""
      [] step = "IFileDialog::SetFolder" -> p.folder # ""
      [] step = "IFileDialog::SetFileName" -> p.file_name # ""
      [] step = "IFileDialog::SetFileNameLabel" -> p.file_name_label # ""
      [] step = "IFileDialog::SetFileTypes" -> WantsFileTypes(p)
      [] step = "IFileDialog::SetFileTypeIndex" -> WantsFileTypeIndex(p)
      [] step = "IFileDialog::SetOkButtonLabel" -> p.ok_button_label # ""
      [] step = "IFileDialog::GetOptions" -> p.options > 0
      [] step = "IFileDialog::SetOptions" -> p.options > 0
      [] step = "IFileDialog::SetTitle" -> p.title # ""

RECURSIVE NextCfg(_, _)
\* The first call of configure_file_dialog at or after position k that the
\* configuration asks for; "IModalWindow::Show" when configuration is over.
NextCfg(p, k) ==
    IF k > Len(CfgOrder) THEN "IModalWindow::Show"
    ELSE IF Applies(p, CfgOrder[k]) THEN CfgOrder[k]
    ELSE NextCfg(p, k + 1)

CfgPos(step) == CHOOSE k \in 1 .. Len(CfgOrder) : CfgOrder[k] = step

\* Where the session continues after the call at step succeeded.
AfterCfg(p, step) == NextCfg(p, CfgPos(step) + 1)

\* The flags written with the multi-select flag always added.
OptionsToSet_ForcesMultiSelect(existing, requested) ==
    BitOr(BitOr(existing, requested), FOS_ALLOWMULTISELECT)

\* The requested flags written over the dialog's own.
OptionsToSet_Overwrite(existing, requested) == requested

\* existing_options | params.options
OptionsToSet(existing, requested) == BitOr(existing, requested)

\* for i in 0..item_count: the next iteration, or the code after the loop.
LoopHead(n, count) == IF n < count THEN "IShellItemArray::GetItemAt" ELSE "IFileDialog::GetFileTypeIndex"

\* An empty path list returned as a success.
OpenResult_EmptyIsOk(paths, index) ==
    [ tag |-> "Ok",
      selected_file_path |-> IF paths # <<>> THEN paths[1] ELSE <<>>,
      selected_file_paths |-> paths,
      selected_file_type_index |-> index ]

\* open_dialog's final expression: file_paths.get(0).cloned().map(..)
\* .ok_or(DialogError::UnsupportedFilepath)
OpenResult(paths, index) ==
    IF paths # <<>>
    THEN [ tag |-> "Ok",
           selected_file_path |-> paths[1],
           selected_file_paths |-> paths,
           selected_file_type_index |-> index ]
    ELSE UnsupportedFilepath

\* save_dialog's SaveDialogResult
SaveResult(name, index) ==
    [ tag |-> "Ok", selected_file_path |-> name, selected_filter_index |-> index ]

sessionVars == <<kind, params>>
nativeVars == <<dlg, selection, userChanged>>
localVars == <<existing_options, item_count, i, file_paths, file_name>>
handleVars == <<acquired, released>>

(* ------------------------------- session ------------------------------- *)

\* A caller invokes open_dialog(params) or save_dialog(params).
Call(k) ==
    /\ pc = "idle"
    /\ comInit < MaxPending
    /\ \E p \in ParamsSet : params' = p
    /\ kind' = k
    /\ pc' = "CoInitializeEx"
    /\ UNCHANGED <<nativeVars, localVars, handleVars, result, log, fault, comInit>>

open_dialog == Call("open")

save_dialog == Call("save")

\* com!(CoInitializeEx(..), "CoInitializeEx")?
CoInitializeEx ==
    /\ pc = "CoInitializeEx"
    /\ \E hr \in HRESULTS :
         LET r == com(hr, "CoInitializeEx") IN
         /\ log' = Append(log, "CoInitializeEx")
         /\ fault' = Fault("CoInitializeEx", hr)
         /\ comInit' = IF NativeFailed(hr) THEN comInit ELSE comInit + 1
         /\ IF IsErr(r) THEN Abort(r)
            ELSE pc' = "CoCreateInstance" /\ result' = result
    /\ UNCHANGED <<sessionVars, nativeVars, localVars, handleVars>>

\* com!(CoCreateInstance(..), "CoCreateInstance - IFileOpenDialog")? and
\* save_dialog's "CoCreateInstance - FileSaveDialog", then the start of the
\* dialog's configuration.
CoCreateInstance ==
    /\ pc = "CoCreateInstance"
    /\ \E hr \in HRESULTS :
         LET method == IF kind = "open" THEN "CoCreateInstance - IFileOpenDialog"
                       ELSE "CoCreateInstance - FileSaveDialog"
             r == com(hr, method)
         IN
         /\ log' = Append(log, "CoCreateInstance")
         /\ fault' = Fault("CoCreateInstance", hr)
         /\ acquired' = IF NativeFailed(hr) THEN acquired ELSE acquired + 1
         /\ dlg' = IF NativeFailed(hr) THEN dlg
                   ELSE [NoDialog EXCEPT !.options = InitialOptions(kind)]
         /\ IF IsErr(r) THEN Abort(r)
            ELSE /\ pc' = IF kind = "save" /\ params.save_as_item # ""
                          THEN "SaveAs::SHCreateItemFromParsingName"
                          ELSE NextCfg(params, 1)
                 /\ result' = result
    /\ UNCHANGED <<sessionVars, selection, userChanged, localVars, released, comInit>>

\* A call that resolves a path to a shell item:
\* com!(SHCreateItemFromParsingName(..), "SHCreateItemFromParsingName")?
CreateItem(step, next) ==
    /\ pc = step
    /\ \E hr \in HRESULTS :
         LET r == com(hr, "SHCreateItemFromParsingName") IN
         /\ log' = Append(log, "SHCreateItemFromParsingName")
         /\ fault' = Fault("SHCreateItemFromParsingName", hr)
         /\ acquired' = IF NativeFailed(hr) THEN acquired ELSE acquired + 1
         /\ IF IsErr(r) THEN Abort(r) ELSE pc' = next /\ result' = result
    /\ UNCHANGED <<sessionVars, nativeVars, localVars, released, comInit>>

\* A setter that takes the shell item just created, followed by the item's
\* Release: com!(file_dialog.SetFolder(folder), ..)?; folder.Release()
SetItem(step, next) ==
    /\ pc = step
    /\ \E hr \in HRESULTS :
         LET r == com(hr, step) IN
         /\ fault' = Fault(step, hr)
         /\ IF IsErr(r)
            THEN /\ Abort(r)
                 /\ log' = Append(log, step)
                 /\ released' = released
            ELSE /\ pc' = next /\ result' = result
                 /\ log' = log \o <<step, "IShellItem::Release">>
                 /\ released' = released + 1
    /\ UNCHANGED <<sessionVars, nativeVars, localVars, acquired, comInit>>

\* A setter that takes a string: com!(file_dialog.SetTitle(..), ..)?
SetString(step) ==
    /\ pc = step
    /\ \E hr \in HRESULTS :
         LET r == com(hr, step) IN
         /\ log' = Append(log, step)
         /\ fault' = Fault(step, hr)
         /\ IF IsErr(r) THEN Abort(r)
            ELSE pc' = AfterCfg(params, step) /\ result' = result
    /\ UNCHANGED <<sessionVars, nativeVars, localVars, handleVars, comInit>>

\* save_dialog: if params.save_as_item != "" { SHCreateItemFromParsingName
SaveAsCreateItem ==
    CreateItem("SaveAs::SHCreateItemFromParsingName", "IFileDialog::SetSaveAsItem")

\* save_dialog: SetSaveAsItem(item); item.Release() }
SetSaveAsItem == SetItem("IFileDialog::SetSaveAsItem", NextCfg(params, 1))

SetDefaultExtension == SetString("IFileDialog::SetDefaultExtension")

DefaultFolderCreateItem ==
    CreateItem("DefaultFolder::SHCreateItemFromParsingName", "IFileDialog::SetDefaultFolder")

SetDefaultFolder ==
    SetItem("IFileDialog::SetDefaultFolder", AfterCfg(params, "IFileDialog::SetDefaultFolder"))

FolderCreateItem ==
    CreateItem("Folder::SHCreateItemFromParsingName", "IFileDialog::SetFolder")

SetFolder == SetItem("IFileDialog::SetFolder", AfterCfg(params, "IFileDialog::SetFolder"))

SetFileName == SetString("IFileDialog::SetFileName")

SetFileNameLabel == SetString("IFileDialog::SetFileNameLabel")

\* add_filters: com!(dialog.SetFileTypes(filter_specs.len(), ..), ..)?
\* The dialog takes the list and selects its first entry.
add_filters ==
    /\ pc = "IFileDialog::SetFileTypes"
    /\ \E hr \in HRESULTS :
         LET r == com(hr, "IFileDialog::SetFileTypes") IN
         /\ log' = Append(log, "IFileDialog::SetFileTypes")
         /\ fault' = Fault("IFileDialog::SetFileTypes", hr)
         /\ dlg' = IF NativeFailed(hr) THEN dlg
                   ELSE [dlg EXCEPT !.file_types = params.file_types,
                                    !.file_type_index = 1]
         /\ IF IsErr(r) THEN Abort(r)
            ELSE pc' = AfterCfg(params, "IFileDialog::SetFileTypes") /\ result' = result
    /\ UNCHANGED <<sessionVars, selection, userChanged, localVars, handleVars, comInit>>

\* com!(file_dialog.SetFileTypeIndex(params.file_type_index), ..)?
SetFileTypeIndex ==
    /\ pc = "IFileDialog::SetFileTypeIndex"
    /\ \E hr \in HRESULTS :
         LET r == com(hr, "IFileDialog::SetFileTypeIndex") IN
         /\ log' = Append(log, "IFileDialog::SetFileTypeIndex")
         /\ fault' = Fault("IFileDialog::SetFileTypeIndex", hr)
         /\ dlg' = IF NativeFailed(hr) THEN dlg
                   ELSE [dlg EXCEPT !.file_type_index = params.file_type_index]
         /\ IF IsErr(r) THEN Abort(r)
            ELSE pc' = AfterCfg(params, "IFileDialog::SetFileTypeIndex") /\ result' = result
    /\ UNCHANGED <<sessionVars, selection, userChanged, localVars, handleVars, comInit>>

SetOkButtonLabel == SetString("IFileDialog::SetOkButtonLabel")

\* com!(file_dialog.GetOptions(&mut existing_options), ..)?
GetOptions ==
    /\ pc = "IFileDialog::GetOptions"
    /\ \E hr \in HRESULTS :
         LET r == com(hr, "IFileDialog::GetOptions") IN
         /\ log' = Append(log, "IFileDialog::GetOptions")
         /\ fault' = Fault("IFileDialog::GetOptions", hr)
         /\ existing_options' = IF NativeFailed(hr) THEN existing_options ELSE dlg.options
         /\ IF IsErr(r) THEN Abort(r)
            ELSE pc' = "IFileDialog::SetOptions" /\ result' = result
    /\ UNCHANGED <<sessionVars, nativeVars, item_count, i, file_paths, file_name, handleVars, comInit>>

\* com!(file_dialog.SetOptions(existing_options | params.options), ..)?
SetOptions ==
    /\ pc = "IFileDialog::SetOptions"
    /\ \E hr \in HRESULTS :
         LET r == com(hr, "IFileDialog::SetOptions") IN
         /\ log' = Append(log, "IFileDialog::SetOptions")
         /\ fault' = Fault("IFileDialog::SetOptions", hr)
         /\ dlg' = IF NativeFailed(hr) THEN dlg
                   ELSE [dlg EXCEPT !.options = OptionsToSet(existing_options, params.options)]
         /\ IF IsErr(r) THEN Abort(r)
            ELSE pc' = AfterCfg(params, "IFileDialog::SetOptions") /\ result' = result
    /\ UNCHANGED <<sessionVars, selection, userChanged, localVars, handleVars, comInit>>

SetTitle == SetString("IFileDialog::SetTitle")

configure_file_dialog ==
    \/ SetDefaultExtension
    \/ DefaultFolderCreateItem
    \/ SetDefaultFolder
    \/ FolderCreateItem
    \/ SetFolder
    \/ SetFileName
    \/ SetFileNameLabel
    \/ add_filters
    \/ SetFileTypeIndex
    \/ SetOkButtonLabel
    \/ GetOptions
    \/ SetOptions
    \/ SetTitle

(* ------------------------------- display ------------------------------- *)

\* show_dialog(file_dialog, params.owner)?  On success the user has
\* confirmed a selection and possibly picked another filter.
Show ==
    /\ pc = "IModalWindow::Show"
    /\ \E hr \in HRESULTS :
         LET r == show_dialog(hr) IN
         /\ log' = Append(log, "IModalWindow::Show")
         /\ fault' = Fault("IModalWindow::Show", hr)
         /\ IF NativeFailed(hr)
            THEN UNCHANGED <<dlg, selection, userChanged>>
            ELSE \E sel \in Selections(kind, dlg.options),
                    idx \in {dlg.file_type_index} \cup (1 .. Len(dlg.file_types)) :
                   /\ selection' = sel
                   /\ dlg' = [dlg EXCEPT !.file_type_index = idx]
                   /\ userChanged' = (idx # dlg.file_type_index)
         /\ IF IsErr(r) THEN Abort(r)
            ELSE /\ pc' = IF kind = "open" THEN "IFileOpenDialog::GetResults"
                          ELSE "IFileDialog::GetResult"
                 /\ result' = result
    /\ UNCHANGED <<sessionVars, localVars, handleVars, comInit>>

(* ------------------------- open_dialog: results ------------------------ *)

\* com!(file_open_dialog.GetResults(&mut shell_item_array), ..)?
GetResults ==
    /\ pc = "IFileOpenDialog::GetResults"
    /\ \E hr \in HRESULTS :
         LET r == com(hr, "IFileOpenDialog::GetResults") IN
         /\ log' = Append(log, "IFileOpenDialog::GetResults")
         /\ fault' = Fault("IFileOpenDialog::GetResults", hr)
         /\ acquired' = IF NativeFailed(hr) THEN acquired ELSE acquired + 1
         /\ IF IsErr(r) THEN Abort(r)
            ELSE pc' = "IShellItemArray::GetCount" /\ result' = result
    /\ UNCHANGED <<sessionVars, nativeVars, localVars, released, comInit>>

\* com!(shell_item_array.GetCount(&mut item_count), ..)? and the loop head.
GetCount ==
    /\ pc = "IShellItemArray::GetCount"
    /\ \E hr \in HRESULTS :
         LET r == com(hr, "IShellItemArray::GetCount")
             count == IF NativeFailed(hr) THEN item_count ELSE Len(selection)
         IN
         /\ log' = Append(log, "IShellItemArray::GetCount")
         /\ fault' = Fault("IShellItemArray::GetCount", hr)
         /\ item_count' = count
         /\ IF IsErr(r) THEN Abort(r)
            ELSE pc' = LoopHead(0, count) /\ result' = result
    /\ UNCHANGED <<sessionVars, nativeVars, existing_options, i, file_paths, file_name,
                   handleVars, comInit>>

\* com!(shell_item_array.GetItemAt(i, &mut shell_item), ..)?
GetItemAt ==
    /\ pc = "IShellItemArray::GetItemAt"
    /\ \E hr \in HRESULTS :
         LET r == com(hr, "IShellItemArray::GetItemAt") IN
         /\ log' = Append(log, "IShellItemArray::GetItemAt")
         /\ fault' = Fault("IShellItemArray::GetItemAt", hr)
         /\ acquired' = IF NativeFailed(hr) THEN acquired ELSE acquired + 1
         /\ IF IsErr(r) THEN Abort(r)
            ELSE pc' = "IShellItem::GetAttributes" /\ result' = result
    /\ UNCHANGED <<sessionVars, nativeVars, localVars, released, comInit>>

\* com!(shell_item.GetAttributes(SFGAO_FILESYSTEM, &mut attribs), ..)?
\* if attribs & SFGAO_FILESYSTEM == 0 { continue; }
GetAttributes ==
    /\ pc = "IShellItem::GetAttributes"
    /\ \E hr \in HRESULTS :
         LET r == com(hr, "IShellItem::GetAttributes")
             attribs == IF NativeFailed(hr) THEN 0
                        ELSE BitAnd(ItemAttributes(selection[i + 1]), SFGAO_FILESYSTEM)
         IN
         /\ log' = Append(log, "IShellItem::GetAttributes")
         /\ fault' = Fault("IShellItem::GetAttributes", hr)
         /\ IF IsErr(r) THEN Abort(r) /\ i' = i
            ELSE /\ result' = result
                 /\ IF BitAnd(attribs, SFGAO_FILESYSTEM) = 0
                    THEN i' = i + 1 /\ pc' = LoopHead(i + 1, item_count)
                    ELSE i' = i /\ pc' = "IShellItem::GetDisplayName"
    /\ UNCHANGED <<sessionVars, nativeVars, existing_options, item_count, file_paths,
                   file_name, handleVars, comInit>>

\* HRESULTs IShellItem::GetDisplayName(SIGDN_FILESYSPATH) can answer for an
\* item: an item without a filesystem path has no such name.
DisplayNameAnswers(fs) == IF fs THEN HRESULTS ELSE {hr \in HRESULTS : NativeFailed(hr)}

\* let file_name = get_shell_item_display_name(&shell_item)?;
\* file_paths.push(PathBuf::from(file_name)); shell_item.Release()
OpenGetDisplayName ==
    /\ pc = "IShellItem::GetDisplayName"
    /\ kind = "open"
    /\ \E hr \in DisplayNameAnswers(selection[i + 1]) :
         LET r == com(hr, "IShellItem::GetDisplayName") IN
         /\ fault' = Fault("IShellItem::GetDisplayName", hr)
         /\ IF IsErr(r)
            THEN /\ Abort(r)
                 /\ log' = Append(log, "IShellItem::GetDisplayName")
                 /\ UNCHANGED <<i, file_paths, acquired, released>>
            ELSE /\ result' = result
                 /\ log' = log \o <<"IShellItem::GetDisplayName", "CoTaskMemFree",
                                    "IShellItem::Release">>
                 /\ acquired' = acquired + 1
                 /\ released' = released + 2
                 /\ file_paths' =
                        PushPath(file_paths, OsStringFromWide(DisplayNameBuffer(i + 1)))
                 /\ i' = i + 1
                 /\ pc' = LoopHead(i + 1, item_count)
    /\ UNCHANGED <<sessionVars, nativeVars, existing_options, item_count, file_name, comInit>>

(* ------------------------- save_dialog: result ------------------------- *)

\* com!(file_save_dialog.GetResult(&mut shell_item), "IFileDialog::GetResult")?
GetResult ==
    /\ pc = "IFileDialog::GetResult"
    /\ \E hr \in HRESULTS :
         LET r == com(hr, "IFileDialog::GetResult") IN
         /\ log' = Append(log, "IFileDialog::GetResult")
         /\ fault' = Fault("IFileDialog::GetResult", hr)
         /\ acquired' = IF NativeFailed(hr) THEN acquired ELSE acquired + 1
         /\ IF IsErr(r) THEN Abort(r)
            ELSE pc' = "IShellItem::GetDisplayName" /\ result' = result
    /\ UNCHANGED <<sessionVars, nativeVars, localVars, released, comInit>>

\* let file_name = get_shell_item_display_name(&shell_item)?;
\* shell_item.Release()
SaveGetDisplayName ==
    /\ pc = "IShellItem::GetDisplayName"
    /\ kind = "save"
    /\ \E hr \in DisplayNameAnswers(selection[1]) :
         LET r == com(hr, "IShellItem::GetDisplayName") IN
         /\ fault' = Fault("IShellItem::GetDisplayName", hr)
         /\ IF IsErr(r)
            THEN /\ Abort(r)
                 /\ log' = Append(log, "IShellItem::GetDisplayName")
                 /\ UNCHANGED <<file_name, acquired, released>>
            ELSE /\ result' = result
                 /\ log' = log \o <<"IShellItem::GetDisplayName", "CoTaskMemFree",
                                    "IShellItem::Release">>
                 /\ acquired' = acquired + 1
                 /\ released' = released + 2
                 /\ file_name' = OsStringFromWide(DisplayNameBuffer(1))
                 /\ pc' = "IFileDialog::GetFileTypeIndex"
    /\ UNCHANGED <<sessionVars, nativeVars, existing_options, item_count, i, file_paths,
                   comInit>>

(* ------------------------------- return -------------------------------- *)

\* The out-value dropped: the function returns the local's initial 0.
get_file_type_index_Unwritten(hr, written) ==
    LET r == com(hr, "IFileDialog::GetFileTypeIndex") IN
    IF IsErr(r) THEN r ELSE [tag |-> "Ok", value |-> 0]

\* fn get_file_type_index: written is selected_filter_index after the call.
get_file_type_index(hr, written) ==
    LET r == com(hr, "IFileDialog::GetFileTypeIndex") IN
    IF IsErr(r) THEN r ELSE [tag |-> "Ok", value |-> written]

\* let selected_filter_index = get_file_type_index(file_dialog)?;
\* CoUninitialize(); and the function's result.
GetFileTypeIndex ==
    /\ pc = "IFileDialog::GetFileTypeIndex"
    /\ \E hr \in HRESULTS :
       \E v \in (IF NativeFailed(hr) THEN {0} ELSE NativeFileTypeIndex(dlg)) :
         LET r == get_file_type_index(hr, v) IN
         /\ fault' = Fault("IFileDialog::GetFileTypeIndex", hr)
         /\ pc' = "returned"
         /\ IF IsErr(r)
            THEN /\ result' = r
                 /\ log' = Append(log, "IFileDialog::GetFileTypeIndex")
                 /\ comInit' = comInit
            ELSE /\ log' = log \o <<"IFileDialog::GetFileTypeIndex", "CoUninitialize">>
                 /\ comInit' = comInit - 1
                 /\ result' = IF kind = "open" THEN OpenResult(file_paths, r.value)
                              ELSE SaveResult(file_name, r.value)
    /\ UNCHANGED <<sessionVars, nativeVars, localVars, handleVars>>

\* The function has returned: its locals are gone, the caller holds the
\* result, and the native layer's per-session instrumentation starts afresh.
\* Only the process-wide COM initialisation count outlives the session.
Return ==
    /\ pc = "returned"
    /\ pc' = "idle"
    /\ kind' = "none"
    /\ params' = DefaultParams
    /\ dlg' = NoDialog
    /\ selection' = <<>>
    /\ userChanged' = FALSE
    /\ existing_options' = 0
    /\ item_count' = 0
    /\ i' = 0
    /\ file_paths' = <<>>
    /\ file_name' = <<>>
    /\ result' = NoResult
    /\ log' = <<>>
    /\ fault' = NoFault
    /\ acquired' = 0
    /\ released' = 0
    /\ UNCHANGED comInit

Next ==
    \/ open_dialog
    \/ save_dialog
    \/ CoInitializeEx
    \/ CoCreateInstance
    \/ SaveAsCreateItem
    \/ SetSaveAsItem
    \/ configure_file_dialog
    \/ Show
    \/ GetResults
    \/ GetCount
    \/ GetItemAt
    \/ GetAttributes
    \/ OpenGetDisplayName
    \/ GetResult
    \/ SaveGetDisplayName
    \/ GetFileTypeIndex
    \/ Return

Spec == Init /\ [][Next]_vars

(* ------------------------------- claims -------------------------------- *)

Range(seq) == {seq[k] : k \in 1 .. Len(seq)}

Returned == pc = "returned"

Succeeded == Returned /\ result.tag = "Ok"

\* The filter index a successful result carries.
FilterIndexOf(r) ==
    IF kind = "open" THEN r.selected_file_type_index ELSE r.selected_filter_index

\* C1: whenever a session has returned, and between sessions, no
\* environment acquisition is outstanding: every successful CoInitializeEx
\* was balanced by a CoUninitialize before the function returned.
C1_EnvironmentReleasedOnEveryExit ==
    pc \in {"returned", "idle"} => comInit = 0

\* C2: when a session has returned, the native handles acquired in it
\* (dialog instance, results collection, shell items, display-name buffers)
\* have all been released: acquire count = release count.
C2_HandlesBalancedAtReturn ==
    Returned => acquired = released

\* C3: when IModalWindow::Show is the call that failed, the result is
\* UserCancelled if its status was 0x800704C7 and otherwise HResultFailed
\* with that status and the method name "IModalWindow::Show"; in both cases
\* Show is the last native call of the session.
C3_ShowStatusTranslated ==
    (Returned /\ fault.method = "IModalWindow::Show") =>
        /\ fault.hresult = HR_CANCELLED => result = UserCancelled
        /\ fault.hresult # HR_CANCELLED =>
               result = HResultFailed("IModalWindow::Show", fault.hresult)
        /\ log[Len(log)] = "IModalWindow::Show"

\* C3 witness: a configured dialog was shown and the user cancelled it.
C3_Witness ==
    /\ Returned
    /\ params.title # ""
    /\ fault = [method |-> "IModalWindow::Show", hresult |-> HR_CANCELLED]
    /\ result = UserCancelled

\* The native calls that configure the dialog.
ConfigMethods ==
    (Range(CfgOrder) \ {"DefaultFolder::SHCreateItemFromParsingName",
                        "Folder::SHCreateItemFromParsingName"})
    \cup {"SHCreateItemFromParsingName", "IFileDialog::SetSaveAsItem"}

\* C4: once a configuration call has answered a failing status, the session
\* has returned HResultFailed with exactly that status and that call's name,
\* the failing call is the last native call made, and the dialog was never
\* shown.
C4_ConfigFailureShortCircuits ==
    fault.method \in ConfigMethods =>
        /\ Returned
        /\ result = HResultFailed(fault.method, fault.hresult)
        /\ log[Len(log)] = fault.method
        /\ "IModalWindow::Show" \notin Range(log)

\* C4 witness: a setter in the middle of the configuration answered the
\* cancelled status, which is reported as HResultFailed like any other.
C4_Witness ==
    /\ Returned
    /\ fault = [method |-> "IFileDialog::SetFileTypeIndex", hresult |-> HR_CANCELLED]
    /\ result.tag = "HResultFailed"
    /\ params.title # ""

\* The open session retrieved the results, went through every returned
\* item, and none of them carries the filesystem attribute.
EveryReturnedItemLacksFilesystem ==
    /\ Returned
    /\ kind = "open"
    /\ "IShellItemArray::GetCount" \in Range(log)
    /\ fault.method # "IShellItemArray::GetCount"
    /\ i = item_count
    /\ \A k \in 1 .. Len(selection) : ~selection[k]

\* C5 as stated: in such a session the result is UnsupportedFilepath and
\* nothing else.
C5_AlwaysUnsupportedFilepath ==
    EveryReturnedItemLacksFilesystem => result = UnsupportedFilepath

\* C5 amended: in such a session the result is never a success; it is
\* UnsupportedFilepath when the GetFileTypeIndex call that follows the loop
\* succeeds and HResultFailed naming that call when it fails.
C5_NoEmptySuccess ==
    EveryReturnedItemLacksFilesystem =>
        \/ fault = NoFault /\ result = UnsupportedFilepath
        \/ /\ fault.method = "IFileDialog::GetFileTypeIndex"
           /\ result = HResultFailed("IFileDialog::GetFileTypeIndex", fault.hresult)

\* C5 witness: two items were returned, neither filesystem-backed, and the
\* session ended in UnsupportedFilepath.
C5_Witness ==
    /\ EveryReturnedItemLacksFilesystem
    /\ selection = <<FALSE, FALSE>>
    /\ result = UnsupportedFilepath

\* C6: the only errors a session returns are UserCancelled and
\* HResultFailed.
C6_OnlyDocumentedErrors ==
    Returned => result.tag \in {"Ok", "UserCancelled", "HResultFailed"}

\* C7: with N >= 1 filters and file_type_index K, 1 <= K <= N, a successful
\* session in which the user did not change the filter returns filter index
\* K.
C7_FilterIndexRoundTrip ==
    ( /\ Succeeded
      /\ params.file_type_index >= 1
      /\ params.file_type_index <= Len(params.file_types)
      /\ ~userChanged )
    => FilterIndexOf(result) = params.file_type_index

\* C7 witness: two filters, index 2, confirmed without changing the filter.
C7_Witness ==
    /\ Succeeded
    /\ Len(params.file_types) = 2
    /\ params.file_type_index = 2
    /\ ~userChanged
    /\ FilterIndexOf(result) = 2

\* C8 as stated: a successful session configured with an empty filter list
\* has the catch-all filter on the dialog and filter index 1.
C8_EmptyListGetsCatchAll ==
    (Succeeded /\ params.file_types = <<>>) =>
        /\ dlg.file_types = <<CatchAllFilter>>
        /\ FilterIndexOf(result) = 1

\* C8 amended: with an empty filter list neither SetFileTypes nor
\* SetFileTypeIndex is called and the dialog carries no filter; the
\* catch-all filter with index 1 is what the default configuration holds,
\* and it is on the dialog once the default configuration has been applied.
C8_EmptyListSetsNothing ==
    /\ (kind # "none" /\ params.file_types = <<>>) =>
           /\ dlg.file_types = <<>>
           /\ "IFileDialog::SetFileTypes" \notin Range(log)
           /\ "IFileDialog::SetFileTypeIndex" \notin Range(log)
    /\ (kind # "none" /\ params = DefaultParams /\ "IModalWindow::Show" \in Range(log)) =>
           /\ dlg.file_types = <<CatchAllFilter>>
           /\ dlg.file_type_index = 1

\* C8 witness: a session with an empty filter list ran to a successful end.
C8_Witness ==
    /\ Succeeded
    /\ params.file_types = <<>>
    /\ dlg.file_types = <<>>

\* C9: every successful result carries a filter index of at least 1.
C9_FilterIndexAtLeastOne ==
    Succeeded => FilterIndexOf(result) >= 1

\* C10: in an open session whose options lack FOS_ALLOWMULTISELECT the path
\* list never holds more than one path, and a successful result holds
\* exactly one.
C10_SingleSelectOnePath ==
    (kind = "open" /\ ~HasFlag(params.options, FOS_ALLOWMULTISELECT)) =>
        /\ Len(file_paths) <= 1
        /\ Succeeded => Len(result.selected_file_paths) = 1

\* C10 witness: a folder picker (options written, no multi-select) returned
\* one path.
C10_Witness ==
    /\ Succeeded
    /\ kind = "open"
    /\ params.options = FOS_PICKFOLDERS
    /\ "IFileDialog::SetOptions" \in Range(log)
    /\ Len(result.selected_file_paths) = 1

\* The filesystem path of the k-th natively returned item.
NativePath(k) == <<67, 58, 96 + k>>

RECURSIVE FilesystemPathsFrom(_, _)
\* The paths of the filesystem-backed items among sel[k], sel[k+1], ..., in
\* that order.
FilesystemPathsFrom(sel, k) ==
    IF k > Len(sel) THEN <<>>
    ELSE IF sel[k] THEN <<NativePath(k)>> \o FilesystemPathsFrom(sel, k + 1)
    ELSE FilesystemPathsFrom(sel, k + 1)

\* C11: in every successful open result, selected_file_paths is the paths
\* of the natively returned items that carry the filesystem attribute, in
\* native order with the others dropped, and selected_file_path is its
\* first element.
C11_PathsAreFilesystemSubsequence ==
    (Succeeded /\ kind = "open") =>
        /\ result.selected_file_paths = FilesystemPathsFrom(selection, 1)
        /\ result.selected_file_paths # <<>>
        /\ result.selected_file_path = result.selected_file_paths[1]

\* C11 witness: of three returned items the middle one is not
\* filesystem-backed; the result holds the first and the third, in order.
C11_Witness ==
    /\ Succeeded
    /\ kind = "open"
    /\ selection = <<TRUE, FALSE, TRUE>>
    /\ result.selected_file_paths = <<NativePath(1), NativePath(3)>>
    /\ result.selected_file_path = NativePath(1)

\* The ten setters of the shared configuration, in the order C12 states.
SetterOrder ==
    << "IFileDialog::SetDefaultExtension",
       "IFileDialog::SetDefaultFolder",
       "IFileDialog::SetFolder",
       "IFileDialog::SetFileName",
       "IFileDialog::SetFileNameLabel",
       "IFileDialog::SetFileTypes",
       "IFileDialog::SetFileTypeIndex",
       "IFileDialog::SetOkButtonLabel",
       "IFileDialog::SetOptions",
       "IFileDialog::SetTitle" >>

\* Whether the configuration p asks for the setter, as C12 states it.
FieldGiven(p, setter) ==
    \/ setter = "IFileDialog::SetDefaultExtension" /\ p.default_extension # ""
    \/ setter = "IFileDialog::SetDefaultFolder" /\ p.default_folder # ""
    \/ setter = "IFileDialog::SetFolder" /\ p.folder # ""
    \/ setter = "IFileDialog::SetFileName" /\ p.file_name # ""
    \/ setter = "IFileDialog::SetFileNameLabel" /\ p.file_name_label # ""
    \/ setter = "IFileDialog::SetFileTypes" /\ Len(p.file_types) > 0
    \/ setter = "IFileDialog::SetFileTypeIndex"
           /\ Len(p.file_types) > 0 /\ p.file_type_index # 0
    \/ setter = "IFileDialog::SetOkButtonLabel" /\ p.ok_button_label # ""
    \/ setter = "IFileDialog::SetOptions" /\ p.options # 0
    \/ setter = "IFileDialog::SetTitle" /\ p.title # ""

SetterNames == Range(SetterOrder)

IsSetter(name) == name \in SetterNames

IsGiven(setter) == FieldGiven(params, setter)

\* The setters the current configuration asks for, in the stated order.
ExpectedSetters == SelectSeq(SetterOrder, IsGiven)

\* The setters called so far in this session, in call order.
SettersCalled == SelectSeq(log, IsSetter)

\* The dialog was configured and shown.
Shown == "IModalWindow::Show" \in Range(log)

\* C12: the setters called are always a prefix of the setters the
\* configuration asks for, taken in the fixed order, and once the dialog is
\* shown they are exactly those: each setter was called if and only if its
\* field is given, default folder and forced folder both when both are
\* given.  With nothing given, the dialog is shown right after it was
\* created, with no native call in between.
C12_SettersInOrderIffGiven ==
    LET called == SettersCalled
        expected == ExpectedSetters
    IN
    /\ Len(called) <= Len(expected)
    /\ called = SubSeq(expected, 1, Len(called))
    /\ Shown => called = expected
    /\ (Shown /\ expected = <<>> /\ params.save_as_item = "") =>
           SubSeq(log, 1, 3) = <<"CoInitializeEx", "CoCreateInstance", "IModalWindow::Show">>

\* C12 witness: every field is given, both folders among them, and the
\* dialog was shown after all ten setters were called in order.
C12_Witness ==
    /\ Shown
    /\ params.default_folder # ""
    /\ params.folder # ""
    /\ SettersCalled = SetterOrder

\* The option flags the model distinguishes.
KnownFlags ==
    { FOS_OVERWRITEPROMPT, FOS_NOCHANGEDIR, FOS_PICKFOLDERS, FOS_ALLOWMULTISELECT,
      FOS_PATHMUSTEXIST, FOS_FILEMUSTEXIST, FOS_NOREADONLYRETURN }

\* The known flags set in the u32 x (each flag is one bit).
FlagsOf(x) == {f \in KnownFlags : (x \div f) % 2 = 1}

FreshOpenFlags == FlagsOf(InitialOptions("open"))

FreshSaveFlags == FlagsOf(InitialOptions("save"))

\* The flags set on the dialog before it is configured.
FreshFlags(k) == IF k = "open" THEN FreshOpenFlags ELSE FreshSaveFlags

\* The dialog exists: CoCreateInstance succeeded.
Created == "CoCreateInstance" \in Range(log) /\ fault.method # "CoCreateInstance"

\* SetOptions was called and succeeded.
OptionsWritten ==
    "IFileDialog::SetOptions" \in Range(log) /\ fault.method # "IFileDialog::SetOptions"

\* C13: once SetOptions has succeeded, the flags read by GetOptions were
\* those of the fresh dialog and the flags on the dialog are exactly those
\* together with the requested ones.  With options = 0 neither GetOptions
\* nor SetOptions is called and the dialog keeps its own flags.
C13_OptionsAreOredIn ==
    /\ OptionsWritten =>
           /\ params.options # 0
           /\ FlagsOf(existing_options) = FreshFlags(kind)
           /\ FlagsOf(dlg.options) = FreshFlags(kind) \cup FlagsOf(params.options)
    /\ (Created /\ params.options = 0) =>
           /\ "IFileDialog::GetOptions" \notin Range(log)
           /\ "IFileDialog::SetOptions" \notin Range(log)
           /\ FlagsOf(dlg.options) = FreshFlags(kind)

\* C13 witness: a folder picker was requested on an open dialog; after
\* SetOptions the dialog has the requested flag and still has its own.
C13_Witness ==
    /\ OptionsWritten
    /\ kind = "open"
    /\ params.options = FOS_PICKFOLDERS
    /\ FOS_PICKFOLDERS \in FlagsOf(dlg.options)
    /\ FOS_FILEMUSTEXIST \in FlagsOf(dlg.options)
    /\ Shown

====
